---- MODULE Spec2Model ----
(***************************************************************************)
(* The seeding routine of the fast_food application (lib/seed.ts) and the  *)
(* Seed button of the Search tab that starts it.                           *)
(*                                                                         *)
(* seed() is an async function: it runs synchronously up to its next       *)
(* await, and is resumed when the awaited remote call settles.  Every      *)
(* action below is one such uninterrupted stretch: the press of the button *)
(* (up to the first await) or the settling of one remote call (up to the   *)
(* next await or to the end of seed()).                                    *)
(***************************************************************************)
EXTENDS Integers, Sequences, FiniteSets, TLC

\* ------------------------------------------------------------------ bounds
MaxCats    == 2    \* categories in the dataset
MaxCus     == 1    \* customizations in the dataset
MaxMenu    == 2    \* menu items in the dataset
MaxItemCus == 2    \* customization names listed by a menu item
MaxCalls   == 2    \* presses of the Seed button
MaxFaults  == 2    \* remote calls that fail for a reason of the remote's
PageLimit  == 2    \* records one listDocuments / listFiles call returns
MaxClientData == 1 \* size of each part of the dataset when two clients seed

\* ------------------------------------------------------------ the dataset
CatNames  == <<"Pizza", "Drinks", "Burgers">>
CusNames  == <<"Extra Cheese", "Fries", "Large">>
ItemNames == <<"Margherita", "Cola", "Cheeseburger">>

Pick(pool, n) == pool[((n - 1) % Len(pool)) + 1]

\* data.categories, data.customizations, data.menu: nc categories, nu
\* customizations, nm menu items that each list the first nj customization
\* names; item n belongs to the n-th category name.
Dataset(nc, nu, nm, nj) ==
    [ categories     |-> [n \in 1..nc |-> [name |-> Pick(CatNames, n)]],
      customizations |-> [n \in 1..nu |-> [name |-> Pick(CusNames, n)]],
      menu           |-> [n \in 1..nm |->
                            [ name           |-> Pick(ItemNames, n),
                              image_url      |-> n,
                              category_name  |-> Pick(CatNames, n),
                              customizations |-> [m \in 1..nj |-> Pick(CusNames, m)] ]] ]

Datasets ==
    { Dataset(nc, nu, nm, nj) :
        nc \in 0..MaxCats, nu \in 0..MaxCus, nm \in 0..MaxMenu, nj \in 0..MaxItemCus }

AllCatNames == { CatNames[n] : n \in 1..Len(CatNames) }
AllCusNames == { CusNames[n] : n \in 1..Len(CusNames) }

\* ------------------------------------------------------------- the remote
\* appwriteConfig: the four collections and the bucket, in the order seed()
\* clears them.
ClearOrder == <<"categories", "customizations", "menu", "menu_customizations", "bucket">>
Collections == { ClearOrder[n] : n \in 1..Len(ClearOrder) }

Undefined == 0     \* a missing key of categoryMap / customizationMap
NotFound  == 404
Failure   == 500   \* any remote error other than not-found
Ok        == 200

PlaceholderUrl == <<"https://via.placeholder.com/150", 0>>
getFileViewURL(fileId) == <<"view", fileId>>

Calls == 1..MaxCalls
Procs == {1, 2}

VARIABLES
    data,             \* the bundled dataset (read only)
    store,            \* the remote: collection or bucket -> its records
    pending,          \* deletions issued and not yet settled
    nextId,           \* source of ID.unique()
    faults,           \* remote failures so far
    isSeeding,        \* the module's flag, one per process
    proc,             \* the process each button press belongs to
    called,           \* presses of the button so far
    pc,               \* where each seed() invocation is suspended
    clearIdx,         \* which of the five clears it is in
    list,             \* what the listing of the clear in progress returned
    idx,              \* index of the for-of loop it is in
    jdx,              \* index of the inner loop over item.customizations
    categoryMap,
    customizationMap,
    uploadedImage,
    menuDoc,          \* $id of the menu document of the current item
    seedError,        \* the error the outer catch logged (0: none)
    warnings,         \* what each invocation passed to console.warn
    created,          \* the $ids each invocation got back from create calls
    initialStore,     \* the remote as the first press found it
    lastDelete        \* what the last settled safeDelete* call did

vars == << data, store, pending, nextId, faults, isSeeding, proc, called, pc,
           clearIdx, list, idx, jdx, categoryMap, customizationMap, uploadedImage,
           menuDoc, seedError, warnings, created, initialStore, lastDelete >>

fixed == << data, proc, initialStore >>

locals == << clearIdx, list, idx, jdx, categoryMap, customizationMap, uploadedImage,
             menuDoc, seedError, warnings, created >>

Ids(col) == { d.id : d \in store[col] }

Min(a, b) == IF a < b THEN a ELSE b

\* A remote call may fail for a reason of its own while the budget lasts.
FaultChoices == IF faults < MaxFaults THEN {FALSE, TRUE} ELSE {FALSE}

EmptyStore == [c \in Collections |-> {}]

NoList == [total |-> 0, documents |-> {}]

NoDelete == [code |-> 0, raised |-> FALSE]

\* The remote as a complete, failure-free seeding of dataset d in an earlier
\* session of the application leaves it: IDs in the order seed() creates.
ItemBase(d, n) ==
    Len(d.categories) + Len(d.customizations) + (n - 1) * (2 + Len(d.menu[1].customizations))

SeededStore(d) ==
    [ categories |->
        { [id |-> n, name |-> d.categories[n].name] : n \in 1..Len(d.categories) },
      customizations |->
        { [id |-> Len(d.categories) + n, name |-> d.customizations[n].name] :
            n \in 1..Len(d.customizations) },
      bucket |->
        { [id |-> ItemBase(d, n) + 1, uri |-> d.menu[n].image_url] : n \in 1..Len(d.menu) },
      menu |->
        { [ id         |-> ItemBase(d, n) + 2,
            name       |-> d.menu[n].name,
            image_url  |-> getFileViewURL(ItemBase(d, n) + 1),
            categories |-> IF \E c \in 1..Len(d.categories) :
                                 d.categories[c].name = d.menu[n].category_name
                           THEN CHOOSE c \in 1..Len(d.categories) :
                                 d.categories[c].name = d.menu[n].category_name
                           ELSE Undefined ] : n \in 1..Len(d.menu) },
      menu_customizations |->
        { [ id             |-> ItemBase(d, nm[1]) + 2 + nm[2],
            menu           |-> ItemBase(d, nm[1]) + 2,
            customizations |-> IF nm[2] <= Len(d.customizations)
                               THEN Len(d.categories) + nm[2] ELSE Undefined ] :
            nm \in { x \in (1..Len(d.menu)) \X (1..MaxItemCus) :
                        x[2] <= Len(d.menu[x[1]].customizations) } } ]

StoreSize(s) ==
    Cardinality(s["categories"]) + Cardinality(s["customizations"]) + Cardinality(s["menu"])
      + Cardinality(s["menu_customizations"]) + Cardinality(s["bucket"])

Init ==
    /\ data \in Datasets
    /\ initialStore \in {EmptyStore, SeededStore(data)}
    /\ store = initialStore
    /\ pending = {}
    /\ nextId = StoreSize(initialStore) + 1
    /\ warnings = [k \in Calls |-> {}]
    /\ created = [k \in Calls |-> {}]
    /\ faults = 0
    /\ isSeeding = [p \in Procs |-> FALSE]
    /\ proc = [k \in Calls |-> 1]
    /\ called = 0
    /\ pc = [k \in Calls |-> "new"]
    /\ clearIdx = [k \in Calls |-> 0]
    /\ list = [k \in Calls |-> NoList]
    /\ idx = [k \in Calls |-> 0]
    /\ jdx = [k \in Calls |-> 0]
    /\ categoryMap = [k \in Calls |-> [n \in AllCatNames |-> Undefined]]
    /\ customizationMap = [k \in Calls |-> [n \in AllCusNames |-> Undefined]]
    /\ uploadedImage = [k \in Calls |-> PlaceholderUrl]
    /\ menuDoc = [k \in Calls |-> Undefined]
    /\ seedError = [k \in Calls |-> 0]
    /\ lastDelete = NoDelete

\* ------------------------------------------------- positions inside seed()
\* Where seed() next suspends, given the loop it is about to enter: a loop
\* over an empty or exhausted array falls through to the next phase.
AtDone == [pc |-> "resolved", ci |-> 0, i |-> 0, j |-> 0]

\* (variant: the loop over data.menu starts at the last item)
AtMenuFromLast(n) ==
    IF n <= Len(data.menu)
    THEN [pc |-> "fetch", ci |-> 0, i |-> Len(data.menu) + 1 - n, j |-> 0]
    ELSE AtDone

AtMenu(n) ==
    IF n <= Len(data.menu)
    THEN [pc |-> "fetch", ci |-> 0, i |-> n, j |-> 0]
    ELSE AtDone

AtJoin(n, m) ==
    IF m <= Len(data.menu[n].customizations)
    THEN [pc |-> "join", ci |-> 0, i |-> n, j |-> m]
    ELSE AtMenu(n + 1)

AtCus(n) ==
    IF n <= Len(data.customizations)
    THEN [pc |-> "cus", ci |-> 0, i |-> n, j |-> 0]
    ELSE AtMenu(1)

\* (variant: the customization loop is entered without the category loop)
AtCatSkipped(n) == AtCus(1)

AtCat(n) ==
    IF n <= Len(data.categories)
    THEN [pc |-> "cat", ci |-> 0, i |-> n, j |-> 0]
    ELSE AtCus(1)

AtClear(c) ==
    IF c <= Len(ClearOrder)
    THEN [pc |-> "list", ci |-> c, i |-> 0, j |-> 0]
    ELSE AtCat(1)

Running == {"list", "deleting", "cat", "cus", "fetch", "upload", "menu", "join"}
Settled == {"resolved", "rejected", "ignored"}

\* ------------------------------------------------------- guard and release
\* (variant: one flag shared by every process)
SeedGuardShared(p) == \E q \in Procs : isSeeding[q]

\* (variant: the guard never fires)
SeedGuardOff(p) == FALSE

\* if (isSeeding) { ...; return; }
SeedGuard(p) == isSeeding[p]

\* (variant: the flag is released at the end of the try block, not in finally)
SeedFinallyOnSuccess(p, failed) ==
    IF failed THEN isSeeding ELSE [isSeeding EXCEPT ![p] = FALSE]

\* finally { isSeeding = false; }   (failed: the outer catch ran)
SeedFinally(p, failed) == [isSeeding EXCEPT ![p] = FALSE]

\* (variant: the outer catch rethrows)
SeedCatchRethrow(err) == "rejected"

\* catch (err) { console.log("Seed error:", err); }   the promise of seed()
\* resolves
SeedCatch(err) == "resolved"

\* seed() moves on to position pos; the end of the try block runs finally.
Goto(k, pos) ==
    /\ pc' = [pc EXCEPT ![k] = pos.pc]
    /\ clearIdx' = [clearIdx EXCEPT ![k] = pos.ci]
    /\ idx' = [idx EXCEPT ![k] = pos.i]
    /\ jdx' = [jdx EXCEPT ![k] = pos.j]
    /\ isSeeding' = IF pos.pc = "resolved" THEN SeedFinally(proc[k], FALSE) ELSE isSeeding
    /\ seedError' = seedError
    /\ list' = IF pos.pc = "deleting" THEN list ELSE [list EXCEPT ![k] = NoList]

\* An error thrown inside the try block of seed() and not caught by an inner
\* try: the outer catch logs it, finally runs, seed() ends.
Abort(k, err) ==
    /\ pc' = [pc EXCEPT ![k] = SeedCatch(err)]
    /\ clearIdx' = [clearIdx EXCEPT ![k] = 0]
    /\ idx' = [idx EXCEPT ![k] = 0]
    /\ jdx' = [jdx EXCEPT ![k] = 0]
    /\ isSeeding' = SeedFinally(proc[k], TRUE)
    /\ seedError' = [seedError EXCEPT ![k] = err]
    /\ list' = [list EXCEPT ![k] = NoList]

\* (variant: the guard's return sits inside the try block, so finally runs)
GuardReturnInTry(p) == [isSeeding EXCEPT ![p] = FALSE]

\* The flag after the guard's early return, which sits before the try block:
\* finally does not run.
GuardReturn(p) == isSeeding

\* ------------------------------------------------------ the Seed button
\* onPress={() => seed().catch(...)}: the press finds a seed in progress.
SeedIgnored(k) ==
    /\ k = called + 1
    /\ pc[k] = "new"
    /\ SeedGuard(proc[k])
    /\ called' = k
    /\ pc' = [pc EXCEPT ![k] = "ignored"]
    /\ isSeeding' = GuardReturn(proc[k])
    /\ UNCHANGED << fixed, store, pending, nextId, faults, locals, lastDelete >>

\* The press passes the guard: isSeeding = true, and seed() runs up to the
\* listDocuments call of clearAll(categoriesCollectionId).
SeedStart(k) ==
    /\ k = called + 1
    /\ pc[k] = "new"
    /\ ~SeedGuard(proc[k])
    /\ called' = k
    /\ isSeeding' = [isSeeding EXCEPT ![proc[k]] = TRUE]
    /\ pc' = [pc EXCEPT ![k] = "list"]
    /\ clearIdx' = [clearIdx EXCEPT ![k] = 1]
    /\ categoryMap' = [categoryMap EXCEPT ![k] = [n \in AllCatNames |-> Undefined]]
    /\ customizationMap' = [customizationMap EXCEPT ![k] = [n \in AllCusNames |-> Undefined]]
    /\ warnings' = [warnings EXCEPT ![k] = {}]
    /\ created' = [created EXCEPT ![k] = {}]
    /\ UNCHANGED << fixed, store, pending, nextId, faults, list, idx, jdx,
                    uploadedImage, menuDoc, seedError, lastDelete >>

\* ------------------------------------------------------------ bulk clear
\* What one listDocuments / listFiles call returns: every record, or one
\* page of them when the collection holds more than a page.
Pages(col) ==
    { S \in SUBSET Ids(col) :
        Cardinality(S) = Min(PageLimit, Cardinality(Ids(col))) }

\* clearAll / clearStorage: the listing settles; on success one deletion per
\* listed record is issued at once and Promise.all awaits them.
ListSettle(k) ==
    /\ pc[k] = "list"
    /\ LET col == ClearOrder[clearIdx[k]] IN
       \E fail \in FaultChoices :
          IF fail
          THEN /\ Abort(k, Failure)
               /\ faults' = faults + 1
               /\ UNCHANGED pending
          ELSE \E page \in Pages(col) :
               /\ pending' = pending \cup { [k |-> k, col |-> col, id |-> d] : d \in page }
               /\ faults' = faults
               /\ IF page = {}
                  THEN Goto(k, AtClear(clearIdx[k] + 1))
                  ELSE /\ pc' = [pc EXCEPT ![k] = "deleting"]
                       /\ list' = [list EXCEPT ![k] =
                                     [total |-> Cardinality(Ids(col)), documents |-> page]]
                       /\ UNCHANGED << clearIdx, idx, jdx, isSeeding, seedError >>
    /\ UNCHANGED << fixed, store, nextId, called, categoryMap, customizationMap,
                    uploadedImage, menuDoc, warnings, created, lastDelete >>

\* databases.deleteDocument / storage.deleteFile as the remote answers it.
RemoteDelete(present, fail) ==
    IF fail THEN Failure ELSE IF present THEN Ok ELSE NotFound

\* (variant: the catch rethrows whatever it caught)
safeDeleteDocumentRethrow(code) == code # Ok

\* (variant: the catch swallows whatever it caught)
safeDeleteDocumentSwallow(code) == FALSE

\* try { await deleteDocument } catch (err) { if (err.code !== 404) throw err }
safeDeleteDocument(code) == code # Ok /\ code # NotFound

\* try { await deleteFile } catch (err) { if (err.code !== 404) throw err }
safeDeleteFile(code) == code # Ok /\ code # NotFound

\* One deletion settles.  Promise.all rejects with the first rejection and
\* resolves when the last deletion has resolved; deletions still pending when
\* it rejects stay pending.
DeleteSettle(op) ==
    /\ op \in pending
    /\ \E fail \in FaultChoices :
       LET k      == op.k
           code   == RemoteDelete(op.id \in Ids(op.col), fail)
           raised == IF op.col = "bucket" THEN safeDeleteFile(code)
                                           ELSE safeDeleteDocument(code)
           rest   == { o \in pending \ {op} : o.k = k }
           waiting == pc[k] = "deleting"
       IN /\ store' = IF code = Ok
                      THEN [store EXCEPT ![op.col] = { d \in @ : d.id # op.id }]
                      ELSE store
          /\ pending' = pending \ {op}
          /\ faults' = IF fail THEN faults + 1 ELSE faults
          /\ lastDelete' = [code |-> code, raised |-> raised]
          /\ IF waiting /\ raised
             THEN Abort(k, code)
             ELSE IF waiting /\ rest = {}
                  THEN Goto(k, AtClear(clearIdx[k] + 1))
                  ELSE UNCHANGED << pc, clearIdx, list, idx, jdx, isSeeding, seedError >>
    /\ UNCHANGED << fixed, nextId, called, categoryMap, customizationMap,
                    uploadedImage, menuDoc, warnings, created >>

\* ------------------------------------------------------------ create phases
\* (variant: a failed category ends the loop over data.categories)
OnCategoryFailureBreak(n) == AtCus(1)

\* catch (err) { console.warn("Failed to create category:", ...) }: the loop
\* goes on with the next category.
OnCategoryFailure(n) == AtCat(n + 1)

\* (variant: the menu item's catch is missing and the join loop still runs)
OnMenuFailureFallThrough(n) == AtJoin(n, 1)

\* catch (err) { console.warn("Failed to create menu item:", ...) }: the body
\* of the item's try block is left, the loop goes on with the next item.
OnMenuFailure(n) == AtMenu(n + 1)

\* (variant: a failed join record ends the loop over item.customizations)
OnJoinFailureBreak(n, m) == AtMenu(n + 1)

\* catch (err) { console.warn("Failed to create menu customization:", ...) }:
\* the loop goes on with the item's next customization name.
OnJoinFailure(n, m) == AtJoin(n, m + 1)

\* (variant: the category reference is left out of the menu document)
MenuPayloadNoRef(k, item) ==
    [ name       |-> item.name,
      image_url  |-> uploadedImage[k],
      categories |-> Undefined ]

\* The fields of the menu document (description, price, rating, calories and
\* protein are copied from the item and left out).
MenuPayload(k, item) ==
    [ name       |-> item.name,
      image_url  |-> uploadedImage[k],
      categories |-> categoryMap[k][item.category_name] ]

\* (variant: both fields of the join record hold the menu document's $id)
JoinPayloadMenuTwice(k, cusName) ==
    [ menu |-> menuDoc[k], customizations |-> menuDoc[k] ]

\* The fields of the menu_customizations document.
JoinPayload(k, cusName) ==
    [ menu |-> menuDoc[k], customizations |-> customizationMap[k][cusName] ]

\* createDocument succeeded: the stored document is the payload under a new $id.
WithId(id, payload) ==
    [ f \in DOMAIN payload \cup {"id"} |-> IF f = "id" THEN id ELSE payload[f] ]

\* for (const cat of data.categories) { try { createDocument } catch { warn } }
CategorySettle(k) ==
    /\ pc[k] = "cat"
    /\ LET cat == data.categories[idx[k]] IN
       \E fail \in FaultChoices :
          /\ IF fail
             THEN /\ faults' = faults + 1
                  /\ warnings' = [warnings EXCEPT ![k] = @ \cup {<<"category", cat.name>>}]
                  /\ UNCHANGED << store, nextId, categoryMap, created >>
                  /\ Goto(k, OnCategoryFailure(idx[k]))
             ELSE /\ store' = [store EXCEPT !["categories"] =
                                  @ \cup { [id |-> nextId, name |-> cat.name] }]
                  /\ categoryMap' = [categoryMap EXCEPT ![k][cat.name] = nextId]
                  /\ created' = [created EXCEPT ![k] = @ \cup {nextId}]
                  /\ nextId' = nextId + 1
                  /\ UNCHANGED << faults, warnings >>
                  /\ Goto(k, AtCat(idx[k] + 1))
    /\ UNCHANGED << fixed, pending, called, customizationMap, uploadedImage,
                    menuDoc, lastDelete >>

\* for (const cus of data.customizations) { try { createDocument } catch { warn } }
CustomizationSettle(k) ==
    /\ pc[k] = "cus"
    /\ LET cus == data.customizations[idx[k]] IN
       \E fail \in FaultChoices :
          /\ IF fail
             THEN /\ faults' = faults + 1
                  /\ warnings' = [warnings EXCEPT ![k] = @ \cup {<<"customization", cus.name>>}]
                  /\ UNCHANGED << store, nextId, customizationMap, created >>
             ELSE /\ store' = [store EXCEPT !["customizations"] =
                                  @ \cup { [id |-> nextId, name |-> cus.name] }]
                  /\ customizationMap' = [customizationMap EXCEPT ![k][cus.name] = nextId]
                  /\ created' = [created EXCEPT ![k] = @ \cup {nextId}]
                  /\ nextId' = nextId + 1
                  /\ UNCHANGED << faults, warnings >>
          /\ Goto(k, AtCus(idx[k] + 1))
    /\ UNCHANGED << fixed, pending, called, categoryMap, uploadedImage,
                    menuDoc, lastDelete >>

\* (variant: the catch block returns the image's own URL)
uploadImageToStorageSource(fetched, fileId) ==
    IF fetched /\ fileId # Undefined THEN getFileViewURL(fileId) ELSE <<"source", 0>>

\* What uploadImageToStorage returns: the view URL of the uploaded file, or,
\* from its catch block, the placeholder.
uploadImageToStorage(fetched, fileId) ==
    IF fetched /\ fileId # Undefined THEN getFileViewURL(fileId) ELSE PlaceholderUrl

\* fetch(imageUrl) settles, then response.ok and response.blob(): the fetch
\* rejects, answers a non-OK response, or yields the image.
FetchOutcomes == IF faults < MaxFaults THEN {"ok", "not_ok", "rejected"} ELSE {"ok"}

FetchSettle(k) ==
    /\ pc[k] = "fetch"
    /\ \E out \in FetchOutcomes :
          IF out = "ok"
          THEN /\ Goto(k, [pc |-> "upload", ci |-> 0, i |-> idx[k], j |-> 0])
               /\ UNCHANGED << faults, uploadedImage, warnings >>
          ELSE /\ uploadedImage' = [uploadedImage EXCEPT ![k] =
                                       uploadImageToStorage(FALSE, Undefined)]
               /\ warnings' = [warnings EXCEPT ![k] =
                                  @ \cup {<<"image", data.menu[idx[k]].name>>}]
               /\ faults' = faults + 1
               /\ Goto(k, [pc |-> "menu", ci |-> 0, i |-> idx[k], j |-> 0])
    /\ UNCHANGED << fixed, store, pending, nextId, called, categoryMap,
                    customizationMap, menuDoc, created, lastDelete >>

\* storage.createFile settles.
UploadSettle(k) ==
    /\ pc[k] = "upload"
    /\ LET item == data.menu[idx[k]] IN
       \E fail \in FaultChoices :
          IF fail
          THEN /\ uploadedImage' = [uploadedImage EXCEPT ![k] =
                                       uploadImageToStorage(TRUE, Undefined)]
               /\ warnings' = [warnings EXCEPT ![k] = @ \cup {<<"image", item.name>>}]
               /\ faults' = faults + 1
               /\ UNCHANGED << store, nextId, created >>
          ELSE /\ store' = [store EXCEPT !["bucket"] =
                               @ \cup { [id |-> nextId, uri |-> item.image_url] }]
               /\ uploadedImage' = [uploadedImage EXCEPT ![k] =
                                       uploadImageToStorage(TRUE, nextId)]
               /\ created' = [created EXCEPT ![k] = @ \cup {nextId}]
               /\ nextId' = nextId + 1
               /\ UNCHANGED << faults, warnings >>
    /\ Goto(k, [pc |-> "menu", ci |-> 0, i |-> idx[k], j |-> 0])
    /\ UNCHANGED << fixed, pending, called, categoryMap, customizationMap,
                    menuDoc, lastDelete >>

\* createDocument(menuCollectionId, ...) settles; on failure the item's catch
\* warns and the loop goes to the next item.
MenuSettle(k) ==
    /\ pc[k] = "menu"
    /\ LET item == data.menu[idx[k]] IN
       \E fail \in FaultChoices :
          IF fail
          THEN /\ faults' = faults + 1
               /\ warnings' = [warnings EXCEPT ![k] = @ \cup {<<"menu item", item.name>>}]
               /\ UNCHANGED << store, nextId, menuDoc, created >>
               /\ Goto(k, OnMenuFailure(idx[k]))
          ELSE /\ store' = [store EXCEPT !["menu"] =
                               @ \cup { WithId(nextId, MenuPayload(k, item)) }]
               /\ menuDoc' = [menuDoc EXCEPT ![k] = nextId]
               /\ created' = [created EXCEPT ![k] = @ \cup {nextId}]
               /\ nextId' = nextId + 1
               /\ UNCHANGED << faults, warnings >>
               /\ Goto(k, AtJoin(idx[k], 1))
    /\ UNCHANGED << fixed, pending, called, categoryMap, customizationMap,
                    uploadedImage, lastDelete >>

\* createDocument(menuCustomizationsCollectionId, ...) settles.
JoinSettle(k) ==
    /\ pc[k] = "join"
    /\ LET cusName == data.menu[idx[k]].customizations[jdx[k]] IN
       \E fail \in FaultChoices :
          IF fail
          THEN /\ faults' = faults + 1
               /\ warnings' = [warnings EXCEPT ![k] =
                                  @ \cup {<<"menu customization", data.menu[idx[k]].name, cusName>>}]
               /\ UNCHANGED << store, nextId, created >>
               /\ Goto(k, OnJoinFailure(idx[k], jdx[k]))
          ELSE /\ store' = [store EXCEPT !["menu_customizations"] =
                               @ \cup { WithId(nextId, JoinPayload(k, cusName)) }]
               /\ created' = [created EXCEPT ![k] = @ \cup {nextId}]
               /\ nextId' = nextId + 1
               /\ UNCHANGED << faults, warnings >>
               /\ Goto(k, AtJoin(idx[k], jdx[k] + 1))
    /\ UNCHANGED << fixed, pending, called, categoryMap, customizationMap,
                    uploadedImage, menuDoc, lastDelete >>

\* ------------------------------------------------------------ specification
Next ==
    \/ \E k \in Calls : SeedIgnored(k)
    \/ \E k \in Calls : SeedStart(k)
    \/ \E k \in Calls : ListSettle(k)
    \/ \E op \in pending : DeleteSettle(op)
    \/ \E k \in Calls : CategorySettle(k)
    \/ \E k \in Calls : CustomizationSettle(k)
    \/ \E k \in Calls : FetchSettle(k)
    \/ \E k \in Calls : UploadSettle(k)
    \/ \E k \in Calls : MenuSettle(k)
    \/ \E k \in Calls : JoinSettle(k)

Spec == Init /\ [][Next]_vars

\* Every remote call eventually settles.
LiveSpec ==
    /\ Init /\ [][Next]_vars
    /\ WF_vars(\E k \in Calls : ListSettle(k))
    /\ WF_vars(\E op \in pending : DeleteSettle(op))
    /\ WF_vars(\E k \in Calls : CategorySettle(k))
    /\ WF_vars(\E k \in Calls : CustomizationSettle(k))
    /\ WF_vars(\E k \in Calls : FetchSettle(k))
    /\ WF_vars(\E k \in Calls : UploadSettle(k))
    /\ WF_vars(\E k \in Calls : MenuSettle(k))
    /\ WF_vars(\E k \in Calls : JoinSettle(k))

\* ---- two clients
\* Two devices run the app against the same remote: each press belongs to
\* either process, and each process has its own isSeeding.
TwoClientDatasets ==
    { Dataset(nc, nu, nm, nj) :
        nc \in 0..MaxClientData, nu \in 0..MaxClientData,
        nm \in 0..MaxClientData, nj \in 0..MaxClientData }

\* The remote does not fail in this specification (its failure budget is
\* spent): what the two runs do to each other is the interleaving alone.
TwoClientInit ==
    /\ data \in TwoClientDatasets
    /\ initialStore \in {EmptyStore, SeededStore(data)}
    /\ store = initialStore
    /\ pending = {}
    /\ nextId = StoreSize(initialStore) + 1
    /\ warnings = [k \in Calls |-> {}]
    /\ created = [k \in Calls |-> {}]
    /\ faults = MaxFaults
    /\ isSeeding = [p \in Procs |-> FALSE]
    /\ proc \in [Calls -> Procs]
    /\ called = 0
    /\ pc = [k \in Calls |-> "new"]
    /\ clearIdx = [k \in Calls |-> 0]
    /\ list = [k \in Calls |-> NoList]
    /\ idx = [k \in Calls |-> 0]
    /\ jdx = [k \in Calls |-> 0]
    /\ categoryMap = [k \in Calls |-> [n \in AllCatNames |-> Undefined]]
    /\ customizationMap = [k \in Calls |-> [n \in AllCusNames |-> Undefined]]
    /\ uploadedImage = [k \in Calls |-> PlaceholderUrl]
    /\ menuDoc = [k \in Calls |-> Undefined]
    /\ seedError = [k \in Calls |-> 0]
    /\ lastDelete = NoDelete

TwoClientSpec == TwoClientInit /\ [][Next]_vars

\* ------------------------------------------------------------------ claims
\* The invocations of one process that are past the guard and not finished.
InFlight(p) == { k \in Calls : proc[k] = p /\ pc[k] \in Running }

\* seed().catch(handler): the handler of the Seed button runs.
CatchHandlerRuns(k) == pc[k] = "rejected"

\* C1: a press while a seed of the same process is in flight ends at the guard:
\* that step changes nothing but the press's own result (no call is issued,
\* the store, the flag and the run in flight are as they were), and at most
\* one invocation of a process is past the guard at any time.
C1_SingleFlight ==
    /\ [](\A p \in Procs : Cardinality(InFlight(p)) <= 1)
    /\ [][ \A k \in Calls :
             (pc[k] = "new" /\ pc'[k] # "new" /\ InFlight(proc[k]) # {})
               => /\ pc'[k] = "ignored"
                  /\ \A m \in Calls \ {k} : pc'[m] = pc[m]
                  /\ UNCHANGED << store, pending, nextId, isSeeding, locals, lastDelete >>
         ]_vars

C1_Witness ==
    \E k, m \in Calls : pc[k] = "ignored" /\ pc[m] \in {"deleting", "menu"}

\* C2: under LiveSpec every invocation past the guard leads to its process's
\* flag being false again, whatever failed; and a press made while no
\* invocation of the process is in flight passes the guard and starts with
\* the first clear.
C2_Release ==
    /\ \A k \in Calls : (pc[k] \in Running) ~> (isSeeding[proc[k]] = FALSE)
    /\ [][ \A k \in Calls :
             (pc[k] = "new" /\ pc'[k] # "new" /\ InFlight(proc[k]) = {})
               => (pc'[k] = "list" /\ clearIdx'[k] = 1 /\ isSeeding'[proc[k]])
         ]_vars

C2_Witness ==
    \E k, m \in Calls :
        /\ seedError[k] # 0 /\ warnings[m] # {}
        /\ k < m /\ pc[k] = "resolved" /\ pc[m] = "resolved"

\* C3: the promise of seed() never rejects, so the button's catch handler
\* never runs.
C3_NeverRejects == \A k \in Calls : ~CatchHandlerRuns(k)

C3_Witness ==
    \E k \in Calls : pc[k] = "resolved" /\ seedError[k] = Failure /\ ~isSeeding[proc[k]]

\* ---- the dataset and the store, for the claims below
SumJoins(d) ==
    LET S[n \in 0..Len(d.menu)] ==
          IF n = 0 THEN 0 ELSE S[n - 1] + Len(d.menu[n].customizations)
    IN S[Len(d.menu)]

Counts(s) ==
    << Cardinality(s["categories"]), Cardinality(s["customizations"]),
       Cardinality(s["menu"]), Cardinality(s["menu_customizations"]) >>

Prescribed(d) ==
    << Len(d.categories), Len(d.customizations), Len(d.menu), SumJoins(d) >>

DataCatNames == { data.categories[n].name : n \in 1..Len(data.categories) }
DataCusNames == { data.customizations[n].name : n \in 1..Len(data.customizations) }

\* No invocation after k has passed the guard.
Latest(k) == \A m \in Calls : m > k => pc[m] \in {"new", "ignored"}

\* Invocation k ran to the end of its try block.
Completed(k) == pc[k] = "resolved" /\ seedError[k] = 0

\* The documents of a collection that invocation k created.
Made(k, col) == { d \in store[col] : d.id \in created[k] }

\* C4: on a store that was empty, one failure-free seed and two failure-free
\* seeds in succession both leave exactly the dataset's number of category,
\* customization, menu and join records, whatever the size of the dataset.
C4_Idempotent ==
    ( /\ initialStore = EmptyStore
      /\ faults = 0
      /\ pending = {}
      /\ \A k \in Calls : pc[k] \in {"new", "resolved"}
      /\ Cardinality({ k \in Calls : pc[k] = "resolved" }) \in {1, 2} )
    => Counts(store) = Prescribed(data)

\* C5: a settling deletion answered 404 does not raise and removes nothing;
\* one that failed otherwise raises (the clear that awaits it aborts with that
\* error) and removes nothing; one that succeeded removes its record, which is
\* then absent from the collection, and removes no other record.
C5_SafeDelete ==
    [][ \A op \in pending :
          (pending' = pending \ {op}) =>
            LET present == op.id \in Ids(op.col)
                r       == lastDelete'
                waiting == pc[op.k] = "deleting"
            IN /\ r.code \in {Ok, NotFound, Failure}
               /\ (faults' = faults) => r.code = (IF present THEN Ok ELSE NotFound)
               /\ (r.code = NotFound) =>
                     /\ ~r.raised
                     /\ store' = store
                     /\ waiting => seedError'[op.k] = 0
               /\ (r.code = Failure) =>
                     /\ r.raised
                     /\ store' = store
                     /\ waiting => (seedError'[op.k] = Failure /\ pc'[op.k] \in Settled)
               /\ (r.code = Ok) =>
                     /\ ~r.raised
                     /\ op.id \notin { d.id : d \in store'[op.col] }
                     /\ store' = [store EXCEPT ![op.col] = { d \in @ : d.id # op.id }]
                     /\ waiting => seedError'[op.k] = 0
      ]_vars

C5_Witness ==
    /\ lastDelete.code = NotFound /\ ~lastDelete.raised
    /\ \E k \in Calls : pc[k] \in Running /\ seedError[k] = 0

\* C6: an invocation whose only failures are category creations does not end
\* in the outer catch; if it is the latest one, every category that did not
\* fail is in the store under the $id categoryMap holds for it once the
\* category loop is over; and once it has completed, every customization is
\* in the store and every menu item has its document, which carries no
\* category reference when its category failed and the $id of its category's
\* document otherwise.
CategoryWarnings == { <<"category", n>> : n \in AllCatNames }

C6_CategoryFailureContained ==
    \A k \in Calls :
     /\ (warnings[k] # {} /\ warnings[k] \subseteq CategoryWarnings) => seedError[k] = 0
     /\
      ( /\ Latest(k)
        /\ warnings[k] \subseteq CategoryWarnings
        /\ pc[k] \in {"cus", "fetch", "upload", "menu", "join"} \/ Completed(k) )
      => /\ \A n \in DataCatNames :
               <<"category", n>> \notin warnings[k]
                 => \E c \in Made(k, "categories") :
                       c.name = n /\ categoryMap[k][n] = c.id
         /\ Completed(k) =>
              /\ \A n \in DataCusNames :
                    \E c \in Made(k, "customizations") : c.name = n
              /\ \A i \in 1..Len(data.menu) :
                    \E d \in Made(k, "menu") :
                       /\ d.name = data.menu[i].name
                       /\ IF <<"category", data.menu[i].category_name>> \in warnings[k]
                            \/ data.menu[i].category_name \notin DataCatNames
                          THEN d.categories = Undefined
                          ELSE \E c \in Made(k, "categories") :
                                  c.name = data.menu[i].category_name /\ d.categories = c.id

C6_Witness ==
    \E k \in Calls :
       /\ Completed(k) /\ Latest(k)
       /\ warnings[k] = {<<"category", "Pizza">>}
       /\ Len(data.categories) = 2 /\ Len(data.menu) = 2
       /\ \E d \in Made(k, "menu") : d.categories = Undefined
       /\ \E d \in Made(k, "menu") : d.categories # Undefined

\* C7: an image whose fetch or upload failed gives the placeholder URL, the
\* menu document of that item carries exactly that URL, a document whose
\* image did not fail carries the view URL of a file of the same invocation,
\* and when images are all that failed the invocation does not end in the
\* outer catch and every menu item has its document and all of its join
\* records.
ImageWarnings == { <<"image", data.menu[i].name>> : i \in 1..Len(data.menu) }

C7_ImageFallback ==
    \A k \in Calls :
      /\ (warnings[k] # {} /\ warnings[k] \subseteq ImageWarnings) => seedError[k] = 0
      /\ (pc[k] = "menu" /\ <<"image", data.menu[idx[k]].name>> \in warnings[k])
            => uploadedImage[k] = <<"https://via.placeholder.com/150", 0>>
      /\ \A d \in Made(k, "menu") :
            IF <<"image", d.name>> \in warnings[k]
            THEN d.image_url = <<"https://via.placeholder.com/150", 0>>
            ELSE \E f \in created[k] : d.image_url = getFileViewURL(f)
      /\ (Latest(k) /\ Completed(k) /\ warnings[k] \subseteq ImageWarnings)
            => \A i \in 1..Len(data.menu) :
                  \E d \in Made(k, "menu") :
                     /\ d.name = data.menu[i].name
                     /\ Cardinality({ j \in Made(k, "menu_customizations") : j.menu = d.id })
                          = Len(data.menu[i].customizations)

C7_Witness ==
    \E k \in Calls :
       /\ Completed(k) /\ Latest(k)
       /\ warnings[k] = {<<"image", "Margherita">>}
       /\ Len(data.menu) = 2
       /\ \E d \in Made(k, "menu") :
             d.name = "Margherita" /\ d.image_url = <<"https://via.placeholder.com/150", 0>>
       /\ \E d \in Made(k, "menu") : d.name = "Cola" /\ d.image_url[1] = "view"

\* C8: a failure-free first seed of an empty store ends with the dataset's
\* number of records in each collection, one category and one customization
\* document per name, one menu document per item that references its
\* category's document, and for every customization name an item lists
\* exactly one join record from the item's document to that customization's
\* document.  (A name the dataset does not define gives an absent reference.)
C8_EndToEnd ==
    ( initialStore = EmptyStore /\ faults = 0 /\ Completed(1) /\ Latest(1) )
    => /\ Counts(store) = Prescribed(data)
       /\ \A n \in DataCatNames : \E c \in store["categories"] : c.name = n
       /\ \A n \in DataCusNames : \E c \in store["customizations"] : c.name = n
       /\ \A i \in 1..Len(data.menu) :
            \E d \in store["menu"] :
               /\ d.name = data.menu[i].name
               /\ IF data.menu[i].category_name \in DataCatNames
                  THEN \E c \in store["categories"] :
                          c.name = data.menu[i].category_name /\ d.categories = c.id
                  ELSE d.categories = Undefined
               /\ Cardinality({ j \in store["menu_customizations"] : j.menu = d.id })
                    = Len(data.menu[i].customizations)
               /\ \A m \in 1..Len(data.menu[i].customizations) :
                    data.menu[i].customizations[m] \in DataCusNames
                      => \E c \in store["customizations"] :
                            /\ c.name = data.menu[i].customizations[m]
                            /\ Cardinality({ j \in store["menu_customizations"] :
                                               j.menu = d.id /\ j.customizations = c.id }) = 1

C8_Witness ==
    /\ initialStore = EmptyStore /\ faults = 0 /\ Completed(1) /\ Latest(1)
    /\ data = Dataset(2, 1, 1, 1)
    /\ Counts(store) = <<2, 1, 1, 1>>
    /\ \E d \in store["menu"], c \in store["categories"] :
          c.name = "Pizza" /\ d.categories = c.id

\* C9: when a clear returns without error and its listing held every record
\* of the collection (as many documents as the listing's total), none of the
\* listed records is in the collection any more.
C9_ClearEmpties ==
    [][ \A k \in Calls : \A c \in 1..Len(ClearOrder) :
          ( /\ pc[k] \in {"list", "deleting"} /\ clearIdx[k] = c
            /\ seedError'[k] = 0
            /\ pc'[k] # "deleting"
            /\ ~(pc'[k] = "list" /\ clearIdx'[k] = c)
            /\ Cardinality(list[k].documents) = list[k].total )
          => list[k].documents \cap { d.id : d \in store'[ClearOrder[c]] } = {}
      ]_vars

C9_Witness ==
    /\ pc[1] = "list" /\ clearIdx[1] = 2
    /\ Cardinality(initialStore["categories"]) = 2
    /\ store["categories"] = {}
    /\ faults = 0

\* C10: with a dataset whose menu items list only customizations it defines,
\* every join record an invocation created references a menu document and a
\* customization document that the same invocation created (so never an
\* absent reference), also when a customization could not be created.
ClosedDataset ==
    \A i \in 1..Len(data.menu) : \A m \in 1..Len(data.menu[i].customizations) :
        data.menu[i].customizations[m] \in DataCusNames

C10_JoinReferences ==
    ClosedDataset =>
      \A k \in Calls : \A j \in Made(k, "menu_customizations") :
          /\ j.menu \in created[k]
          /\ j.customizations # Undefined
          /\ j.customizations \in created[k]

\* ---- progress of one invocation through its phases
\* The deletions of invocation k that have not settled.
PendingOf(k) == { op \in pending : op.k = k }

\* All five clears of invocation k have returned.
ClearsReturned(k) ==
    /\ pc[k] \in {"cat", "cus", "fetch", "upload", "menu", "join", "resolved"}
    /\ seedError[k] = 0
    /\ PendingOf(k) = {}

\* Every createDocument of the category (customization) loop has settled.
CategoriesSettled(k) ==
    \A n \in DataCatNames : categoryMap[k][n] # Undefined \/ <<"category", n>> \in warnings[k]

CustomizationsSettled(k) ==
    \A n \in DataCusNames :
        customizationMap[k][n] # Undefined \/ <<"customization", n>> \in warnings[k]

\* Invocation k has issued a call of the category / customization / menu phase.
CategoryPhaseBegun(k) ==
    \/ pc[k] = "cat"
    \/ \E n \in AllCatNames : categoryMap[k][n] # Undefined
    \/ \E w \in warnings[k] : w[1] = "category"

CustomizationPhaseBegun(k) ==
    \/ pc[k] = "cus"
    \/ \E n \in AllCusNames : customizationMap[k][n] # Undefined
    \/ \E w \in warnings[k] : w[1] = "customization"

MenuPhaseBegun(k) ==
    \/ pc[k] \in {"fetch", "upload", "menu", "join"}
    \/ \E w \in warnings[k] : w[1] \in {"image", "menu item", "menu customization"}
    \/ Made(k, "bucket") # {} \/ Made(k, "menu") # {} \/ Made(k, "menu_customizations") # {}

\* C11: within one invocation the clears come one after the other and nothing
\* is created or attempted before all five have returned; no customization is
\* attempted before every category attempt has settled; no image, menu item
\* or join record is attempted before every customization attempt has settled.
C11_PhaseOrder ==
    \A k \in Calls :
      /\ pc[k] \in {"list", "deleting"}
            => /\ created[k] = {} /\ warnings[k] = {}
               /\ \A op \in PendingOf(k) : op.col = ClearOrder[clearIdx[k]]
      /\ (CategoryPhaseBegun(k) \/ CustomizationPhaseBegun(k) \/ MenuPhaseBegun(k))
            => ClearsReturned(k)
      /\ (CustomizationPhaseBegun(k) \/ MenuPhaseBegun(k)) => CategoriesSettled(k)
      /\ MenuPhaseBegun(k) => CustomizationsSettled(k)

C11_Witness ==
    \E k \in Calls :
       /\ pc[k] = "fetch" /\ idx[k] = 1
       /\ Len(data.categories) = 2 /\ Len(data.customizations) = 1
       /\ initialStore # EmptyStore
       /\ Cardinality(Made(k, "categories")) = 1
       /\ <<"category", "Drinks">> \in warnings[k]
       /\ Cardinality(Made(k, "customizations")) = 1

\* C12: a clear finishes, by returning or by raising, only when every deletion
\* it issued has settled: in the step in which an invocation leaves its
\* Promise.all none of its deletions is still pending.
C12_ClearAwaitsAllDeletions ==
    [][ \A k \in Calls :
          (pc[k] = "deleting" /\ pc'[k] # "deleting")
            => { op \in pending' : op.k = k } = {}
      ]_vars

\* C13: in the step in which a clear of invocation k fails (its listing, or a
\* deletion with an error other than 404) the invocation ends: the error is
\* logged, the flag is released, nothing was or is created or attempted, no
\* deletion of a later collection was issued, the collections cleared before
\* are empty, and those after it hold what they held before the run (stated
\* for the first press); an ended invocation does nothing more.
C13_ClearFailureEndsRun ==
    [][ \A k \in Calls :
          /\ (pc[k] \in {"list", "deleting"} /\ seedError'[k] # 0)
               => /\ seedError[k] = 0
                  /\ pc'[k] = "resolved"
                  /\ isSeeding'[proc[k]] = FALSE
                  /\ created'[k] = {} /\ warnings'[k] = {}
                  /\ \A op \in pending' : op.k = k => op.col = ClearOrder[clearIdx[k]]
                  /\ \A e \in 1..(clearIdx[k] - 1) : store'[ClearOrder[e]] = {}
                  /\ k = 1 => \A e \in (clearIdx[k] + 1)..Len(ClearOrder) :
                                 store'[ClearOrder[e]] = initialStore[ClearOrder[e]]
          /\ pc[k] \in Settled
               => /\ pc'[k] = pc[k] /\ seedError'[k] = seedError[k]
                  /\ created'[k] = created[k] /\ warnings'[k] = warnings[k]
                  /\ { op \in pending' : op.k = k } \subseteq pending
      ]_vars

\* ---- the menu loop, for the claims below
MenuPhase == {"fetch", "upload", "menu", "join"}

\* The menu document invocation k created for item n, as a set (empty: none).
MenuDocsOf(k, n) == { d \in Made(k, "menu") : d.name = data.menu[n].name }

\* The join records invocation k created for item n.
JoinsOf(k, n) ==
    { j \in Made(k, "menu_customizations") : \E d \in MenuDocsOf(k, n) : j.menu = d.id }

MenuWarned(k, n) == <<"menu item", data.menu[n].name>> \in warnings[k]

JoinWarningsOf(k, n) ==
    { w \in warnings[k] : Len(w) = 3 /\ w[1] = "menu customization" /\ w[2] = data.menu[n].name }

\* Where the loop over data.menu is after item n.
AfterItem(k, n) ==
    IF n < Len(data.menu)
    THEN pc'[k] = "fetch" /\ idx'[k] = n + 1
    ELSE pc'[k] = "resolved" /\ seedError'[k] = 0

\* C14: the step in which the menu document of an item fails to be created
\* changes nothing in the store and takes the run to the next item (or to its
\* end, without error), never to the item's join records; an item whose
\* warning was logged has no menu document and no join record of that run.
C14_MenuFailureSkipsItem ==
    /\ [][ \A k \in Calls :
             (pc[k] = "menu" /\ warnings'[k] # warnings[k])
               => /\ warnings'[k] = warnings[k] \cup {<<"menu item", data.menu[idx[k]].name>>}
                  /\ store' = store /\ created'[k] = created[k]
                  /\ AfterItem(k, idx[k])
         ]_vars
    /\ [](\A k \in Calls : \A n \in 1..Len(data.menu) :
            MenuWarned(k, n) =>
              /\ MenuDocsOf(k, n) = {} /\ JoinsOf(k, n) = {}
              /\ Latest(k) =>
                    \A j \in Made(k, "menu_customizations") :
                       \E d \in Made(k, "menu") : j.menu = d.id /\ d.name # data.menu[n].name
              /\ JoinWarningsOf(k, n) = {})

C14_Witness ==
    \E k \in Calls :
       /\ Completed(k) /\ Latest(k) /\ Len(data.menu) = 2
       /\ Len(data.menu[1].customizations) = 2
       /\ MenuWarned(k, 1) /\ ~MenuWarned(k, 2)
       /\ Cardinality(MenuDocsOf(k, 2)) = 1
       /\ Cardinality(Made(k, "menu_customizations")) = 2
       /\ JoinsOf(k, 2) = Made(k, "menu_customizations")

\* C15: the step in which a join record fails to be created changes nothing in
\* the store, keeps the item's menu document, and takes the run to the item's
\* next customization name (after the last one, to the next item); in a
\* completed run every item with a menu document has, for each name it lists,
\* either its join record or the warning of that attempt.
C15_JoinFailureContained ==
    /\ [][ \A k \in Calls :
             (pc[k] = "join" /\ warnings'[k] # warnings[k])
               => /\ store' = store /\ menuDoc'[k] = menuDoc[k]
                  /\ seedError'[k] = 0
                  /\ IF jdx[k] < Len(data.menu[idx[k]].customizations)
                     THEN pc'[k] = "join" /\ idx'[k] = idx[k] /\ jdx'[k] = jdx[k] + 1
                     ELSE AfterItem(k, idx[k])
         ]_vars
    /\ [](\A k \in Calls : \A n \in 1..Len(data.menu) :
            (Completed(k) /\ Latest(k) /\ ~MenuWarned(k, n))
              => /\ Cardinality(MenuDocsOf(k, n)) = 1
                 /\ Cardinality(JoinsOf(k, n)) + Cardinality(JoinWarningsOf(k, n))
                      = Len(data.menu[n].customizations))

C15_Witness ==
    \E k \in Calls :
       /\ Completed(k) /\ Latest(k) /\ Len(data.menu) = 2
       /\ Len(data.menu[1].customizations) = 2
       /\ warnings[k] = {<<"menu customization", data.menu[1].name, data.menu[1].customizations[1]>>}
       /\ Cardinality(JoinsOf(k, 1)) = 1
       /\ Cardinality(MenuDocsOf(k, 2)) = 1 /\ Cardinality(JoinsOf(k, 2)) = 2

\* Item n of invocation k is finished: its menu document was created or its
\* warning logged, and every join record of a created document was attempted.
ItemSettled(k, n) ==
    \/ MenuWarned(k, n) /\ MenuDocsOf(k, n) = {}
    \/ /\ Cardinality(MenuDocsOf(k, n)) = 1
       /\ Cardinality(JoinsOf(k, n)) + Cardinality(JoinWarningsOf(k, n))
            = Len(data.menu[n].customizations)

\* Nothing of item n was attempted by invocation k.
ItemUntouched(k, n) ==
    /\ ~MenuWarned(k, n) /\ MenuDocsOf(k, n) = {} /\ JoinWarningsOf(k, n) = {}
    /\ <<"image", data.menu[n].name>> \notin warnings[k]
    /\ \A f \in Made(k, "bucket") : f.uri # data.menu[n].image_url

\* C16: while the run is at item n of data.menu, every earlier item is
\* finished and no later item has been touched, and the one call in flight
\* belongs to item n; the index moves from an item only to the next one, at
\* that item's first step.
C16_ItemsInSequence ==
    /\ [](\A k \in Calls :
            (pc[k] \in MenuPhase /\ Latest(k))
              => /\ idx[k] \in 1..Len(data.menu)
                 /\ \A n \in 1..(idx[k] - 1) : ItemSettled(k, n)
                 /\ \A n \in (idx[k] + 1)..Len(data.menu) : ItemUntouched(k, n)
                 /\ pc[k] \in {"fetch", "upload"} => ~MenuWarned(k, idx[k]) /\ MenuDocsOf(k, idx[k]) = {}
                 /\ pc[k] = "join"
                      => /\ Cardinality(MenuDocsOf(k, idx[k])) = 1
                         /\ Cardinality(JoinsOf(k, idx[k])) + Cardinality(JoinWarningsOf(k, idx[k]))
                              = jdx[k] - 1)
    /\ [][ \A k \in Calls :
             (pc[k] \in MenuPhase /\ pc'[k] \in MenuPhase /\ idx'[k] # idx[k])
               => idx'[k] = idx[k] + 1 /\ pc'[k] = "fetch"
         ]_vars

C16_Witness ==
    \E k \in Calls :
       /\ pc[k] = "join" /\ idx[k] = 2 /\ jdx[k] = 2 /\ Latest(k)
       /\ Cardinality(JoinsOf(k, 1)) = 1 /\ Cardinality(JoinWarningsOf(k, 1)) = 1
       /\ Cardinality(Made(k, "bucket")) = 2
       /\ Cardinality(JoinsOf(k, 2)) = 1

\* C17: two clients are not excluded from each other: a press passes the
\* guard exactly when the flag of its own process is false, whatever the other
\* process is doing, and a step changes the flag of a process only when an
\* invocation of that process moves.
C17_ClientsNotExcluded ==
    /\ [][ \A k \in Calls :
             (pc[k] = "new" /\ pc'[k] # "new")
               => (pc'[k] = "list" <=> ~isSeeding[proc[k]])
         ]_vars
    /\ [][ \A p \in Procs :
             isSeeding'[p] # isSeeding[p]
               => \E k \in Calls : proc[k] = p /\ pc'[k] # pc[k]
         ]_vars

\* Two failure-free runs of two clients on a one-category dataset have both
\* completed and the store holds two category documents, one of each run.
C17_Witness ==
    /\ proc[1] # proc[2]
    /\ Completed(1) /\ Completed(2) /\ pending = {}
    /\ warnings[1] = {} /\ warnings[2] = {}
    /\ Len(data.categories) = 1
    /\ Cardinality(Made(1, "categories")) = 1 /\ Cardinality(Made(2, "categories")) = 1
    /\ Counts(store) # Prescribed(data)

C19_IdleMeansNothingPending ==
    \A p \in Procs : ~isSeeding[p] => \A op \in pending : proc[op.k] # p

====
